---- MODULE Spec2Model ----
(***************************************************************************)
(* PointCloudLoader (data_loader.py): one object holding self.points,     *)
(* assigned by load_points and read by get_summary, downsample and        *)
(* filter_by_y_range.                                                      *)
(*                                                                         *)
(* Coordinates and voxel sizes are small integers, so every quotient       *)
(* coordinate / voxel_size that occurs is exactly representable in binary  *)
(* floating point and the float division of the code is the exact one.    *)
(* A float that is not a finite number is kept as such: a rounded          *)
(* coordinate is a pair <<class, n>> with class 0 = -inf, 1 = finite n,    *)
(* 2 = +inf, 3 = nan.                                                      *)
(***************************************************************************)
EXTENDS Integers, Sequences, FiniteSets

VARIABLES points, call, ret

vars == <<points, call, ret>>

----------------------------------------------------------------------------
(* Bounds and input sets *)

\* longest file (in rows) given to load_points in Spec
MaxRows == 2

\* longest point sequence downsampled in DownsampleSpec
MaxLen == 3

\* coordinates of the files loaded in Spec
SmallCoords == {0, 1}

\* coordinates of the point sequences of DownsampleSpec: with voxel size 2
\* the quotients are -0.5, 0, 0.5, 1.5, 2 and 2.5
Coords == {-1, 0, 1, 3, 4, 5}

VoxelSizes == {-1, 0, 1, 2}

YBounds == {0, 1}

Axes == 1..3

SeqsUpTo(S, n) == UNION {[1..k -> S] : k \in 0..n}

\* all points over a coordinate set
Cube(C) == {<<x, y, z>> : x \in C, y \in C, z \in C}

\* the points over a coordinate set that lie on an axis
AxisPoints(C) == {p \in Cube(C \cup {0}) : Cardinality({a \in Axes : p[a] # 0}) <= 1}

----------------------------------------------------------------------------
(* Values *)

None == [tag |-> "None"]

ndarray(rows) == [tag |-> "ndarray", rows |-> rows]

IsArray(x) == x.tag = "ndarray"

\* a text file: unreadable, or a sequence of rows of numbers
TextFile(rows) == [readable |-> TRUE, rows |-> rows]

Unreadable == [readable |-> FALSE, rows |-> <<>>]

ZeroRows(n, w) == [i \in 1..n |-> [a \in 1..w |-> 0]]

\* files that np.loadtxt or the width assertion rejects, and files of 0 and 1 rows
OddFiles ==
    {Unreadable}
    \cup {TextFile(ZeroRows(n, w)) : n \in 0..MaxRows, w \in {1, 2, 4}}
    \cup {TextFile(<<<<0, 0, 0>>, <<0, 0>>>>)}

Files == {TextFile(r) : r \in SeqsUpTo(Cube(SmallCoords), MaxRows)} \cup OddFiles

----------------------------------------------------------------------------
(* load_points *)

Widths(f) == {Len(f.rows[i]) : i \in 1..Len(f.rows)}

\* np.loadtxt raises: the file cannot be opened, or its rows differ in width
LoadtxtRaises(f) == ~f.readable \/ Cardinality(Widths(f)) > 1

\* the shape of the array np.loadtxt returns (ndmin = 0: axes of length 1 are
\* squeezed out; an empty file gives shape (0,))
LoadtxtShape(f) ==
    LET n == Len(f.rows)
        w == IF n = 0 THEN 0 ELSE Len(f.rows[1])
    IN  IF n = 0 THEN <<0>>
        ELSE IF n = 1 /\ w = 1 THEN <<>>
        ELSE IF n = 1 THEN <<w>>
        ELSE IF w = 1 THEN <<n>>
        ELSE <<n, w>>

\* the try block completes: shape[1] exists and equals 3
LoadOK(f) ==
    /\ ~LoadtxtRaises(f)
    /\ Len(LoadtxtShape(f)) >= 2
    /\ LoadtxtShape(f)[2] = 3

\* load_points without the assignment of its except branch
LoadedPointsNoReset(f) ==
    IF LoadOK(f) THEN ndarray(f.rows)
    ELSE IF LoadtxtRaises(f) THEN points
    ELSE ndarray(f.rows)

\* self.points after load_points
LoadedPoints(f) == IF LoadOK(f) THEN ndarray(f.rows) ELSE None

load_points(f) ==
    /\ points' = LoadedPoints(f)
    /\ call' = [op |-> "load_points", file |-> f]
    /\ ret' = None

----------------------------------------------------------------------------
(* get_summary *)

RECURSIVE SumAxis(_, _, _)
SumAxis(rows, a, n) == IF n = 0 THEN 0 ELSE rows[n][a] + SumAxis(rows, a, n - 1)

MinAxis(rows, a) == CHOOSE m \in {rows[i][a] : i \in 1..Len(rows)} :
                        \A i \in 1..Len(rows) : m <= rows[i][a]

MaxAxis(rows, a) == CHOOSE m \in {rows[i][a] : i \in 1..Len(rows)} :
                        \A i \in 1..Len(rows) : m >= rows[i][a]

\* the dict get_summary builds; a mean is the quotient <<sum, count>>
Summary(rows) ==
    [tag |-> "dict",
     num_points |-> Len(rows),
     mean |-> [a \in Axes |-> <<SumAxis(rows, a, Len(rows)), Len(rows)>>],
     min |-> [a \in Axes |-> MinAxis(rows, a)],
     max |-> [a \in Axes |-> MaxAxis(rows, a)]]

get_summary ==
    /\ call' = [op |-> "get_summary"]
    /\ ret' = IF points = None THEN None ELSE Summary(points.rows)
    /\ UNCHANGED points

----------------------------------------------------------------------------
(* downsample *)

NegInf == <<0, 0>>

Fin(n) == <<1, n>>

PosInf == <<2, 0>>

NaN == <<3, 0>>

\* rounding that takes a tie up: floor(q + 0.5)
RoundHalfUp(num, den) ==
    LET f == num \div den
        r == num - f * den
    IN  IF 2 * r < den THEN f ELSE f + 1

\* np.round of the quotient num / den (den > 0): nearest integer, a tie to
\* the even one
RoundHalfEven(num, den) ==
    LET f == num \div den
        r == num - f * den
    IN  IF 2 * r < den THEN f
        ELSE IF 2 * r > den THEN f + 1
        ELSE IF f % 2 = 0 THEN f
        ELSE f + 1

\* np.round(c / v): a division by zero gives an infinity or nan (a warning,
\* no exception), which np.round leaves as it is
Rounded(c, v) ==
    IF v = 0 THEN (IF c > 0 THEN PosInf ELSE IF c < 0 THEN NegInf ELSE NaN)
    ELSE IF v > 0 THEN Fin(RoundHalfEven(c, v))
    ELSE Fin(RoundHalfEven(-c, -v))

\* rounded = np.round(self.points / voxel_size), one row of that array
RoundedRow(p, v) == [a \in Axes |-> Rounded(p[a], v)]

\* the order of the sort inside np.unique on one coordinate: nan is the
\* largest value and two nans tie
CoordLess(x, y) == x[1] < y[1] \/ (x[1] = y[1] /\ x[2] < y[2])

\* rows in lexicographic order, first axis first
RowLess(r, s) ==
    \E a \in Axes : /\ CoordLess(r[a], s[a])
                    /\ \A b \in 1..(a - 1) : r[b] = s[b]

\* a comparison that looks at the first axis only
RowDiffersOnX(r, s) == r[1] # s[1] \/ r[1] = NaN

\* the != of np.unique on two rows: some coordinate differs; nan differs
\* from everything, itself included
RowDiffers(r, s) == \E a \in Axes : r[a] # s[a] \/ r[a] = NaN

\* the stable argsort of the rows: the index sequence that sorts them, equal
\* rows in ascending index order
RECURSIVE ArgsortFrom(_, _)
ArgsortFrom(rr, rest) ==
    IF rest = {} THEN <<>>
    ELSE LET i == CHOOSE i \in rest : \A j \in rest \ {i} :
                      \/ RowLess(rr[i], rr[j])
                      \/ (~RowLess(rr[j], rr[i]) /\ i < j)
         IN  <<i>> \o ArgsortFrom(rr, rest \ {i})

\* no sort: the rows stay in index order
ArgsortNone(rr) == [i \in DOMAIN rr |-> i]

Argsort(rr) == ArgsortFrom(rr, DOMAIN rr)

\* a mask that keeps the last position of a run of equal rows
KeepMaskLast(rr, perm) ==
    [k \in DOMAIN perm |->
        k = Len(perm) \/ RowDiffers(rr[perm[k]], rr[perm[k + 1]])]

\* mask of np.unique: a sorted position is kept when it is the first or its
\* row differs from the one before it
KeepMask(rr, perm) ==
    [k \in DOMAIN perm |-> k = 1 \/ RowDiffers(rr[perm[k]], rr[perm[k - 1]])]

RECURSIVE Compress(_, _, _)
Compress(perm, mask, n) ==
    IF n = 0 THEN <<>>
    ELSE Compress(perm, mask, n - 1) \o (IF mask[n] THEN <<perm[n]>> ELSE <<>>)

\* _, unique_indices = np.unique(rounded, axis=0, return_index=True)
UniqueIndices(rr) ==
    LET perm == Argsort(rr)
    IN  Compress(perm, KeepMask(rr, perm), Len(perm))

\* self.points[unique_indices]
Take(rows, idx) == [k \in DOMAIN idx |-> rows[idx[k]]]

\* downsample returning the voxel-grid coordinates rounded * voxel_size
DownsampledOnGrid(rows, v) ==
    LET rr == [i \in DOMAIN rows |-> RoundedRow(rows[i], v)]
    IN  Take([i \in DOMAIN rows |-> [a \in Axes |-> rr[i][a][2] * v]],
             UniqueIndices(rr))

\* downsample returning the unique rounded rows, the first result of np.unique
DownsampledKeys(rows, v) ==
    LET rr == [i \in DOMAIN rows |-> RoundedRow(rows[i], v)]
    IN  Take([i \in DOMAIN rows |-> [a \in Axes |-> rr[i][a][2]]],
             UniqueIndices(rr))

\* the rows downsample returns for the rows of self.points
Downsampled(rows, v) ==
    Take(rows, UniqueIndices([i \in DOMAIN rows |-> RoundedRow(rows[i], v)]))

downsample(voxel_size) ==
    /\ call' = [op |-> "downsample", voxel_size |-> voxel_size]
    /\ ret' = IF points = None THEN None
              ELSE ndarray(Downsampled(points.rows, voxel_size))
    /\ UNCHANGED points

----------------------------------------------------------------------------
(* filter_by_y_range *)

RECURSIVE Masked(_, _, _, _)
Masked(rows, y_min, y_max, n) ==
    IF n = 0 THEN <<>>
    ELSE Masked(rows, y_min, y_max, n - 1)
         \o (IF rows[n][2] >= y_min /\ rows[n][2] <= y_max THEN <<rows[n]>> ELSE <<>>)

\* a filter that stores its result in self.points
filter_in_place(y_min, y_max) ==
    /\ call' = [op |-> "filter_by_y_range", y_min |-> y_min, y_max |-> y_max]
    /\ ret' = IF points = None THEN None
              ELSE ndarray(Masked(points.rows, y_min, y_max, Len(points.rows)))
    /\ points' = ret'

filter_by_y_range(y_min, y_max) ==
    /\ call' = [op |-> "filter_by_y_range", y_min |-> y_min, y_max |-> y_max]
    /\ ret' = IF points = None THEN None
              ELSE ndarray(Masked(points.rows, y_min, y_max, Len(points.rows)))
    /\ UNCHANGED points

----------------------------------------------------------------------------
(* The loader: any file may be loaded at any time, any read may be called *)

Init ==
    /\ points = None
    /\ call = [op |-> "__init__"]
    /\ ret = None

Next ==
    \/ \E f \in Files : load_points(f)
    \/ get_summary
    \/ \E v \in VoxelSizes : downsample(v)
    \/ \E lo \in YBounds, hi \in YBounds : filter_by_y_range(lo, hi)

Spec == Init /\ [][Next]_vars

----------------------------------------------------------------------------
(* downsample as a function of the loaded points: the loader starts with    *)
(* any point sequence load_points can store, and downsample is applied with *)
(* the voxel sizes that are valid (Spec calls it with the others too)       *)

Clouds == {r \in SeqsUpTo(AxisPoints(Coords), MaxLen) : LoadOK(TextFile(r))}

DownsampleInit ==
    \E r \in Clouds :
        /\ points = LoadedPoints(TextFile(r))
        /\ call = [op |-> "load_points", file |-> TextFile(r)]
        /\ ret = None

DownsampleNext == \E v \in {w \in VoxelSizes : w > 0} : downsample(v)

DownsampleSpec == DownsampleInit /\ [][DownsampleNext]_vars

----------------------------------------------------------------------------
(* Properties of downsample (DownsampleSpec) *)

\* the last call was downsample, with a positive voxel size, on loaded points
DownsampledValid ==
    /\ call.op = "downsample"
    /\ call.voxel_size > 0
    /\ IsArray(points)
    /\ IsArray(ret)

VoxelKey(p, v) == RoundedRow(p, v)

KeysOf(rows, v) == {VoxelKey(rows[i], v) : i \in DOMAIN rows}

FirstIndex(rows, v, K) ==
    CHOOSE i \in DOMAIN rows :
        /\ VoxelKey(rows[i], v) = K
        /\ \A j \in DOMAIN rows : VoxelKey(rows[j], v) = K => i <= j

\* C1: after downsample(v), v > 0, every VoxelKey of the stored points has
\* exactly one point in the result, and that point is the stored point of
\* smallest index with that key
C1_FirstOccurrenceKept ==
    DownsampledValid =>
        LET S == points.rows
            v == call.voxel_size
            out == ret.rows
        IN  \A K \in KeysOf(S, v) :
                /\ Cardinality({k \in DOMAIN out : VoxelKey(out[k], v) = K}) = 1
                /\ \E k \in DOMAIN out : out[k] = S[FirstIndex(S, v, K)]

\* the tie-break scenario, scaled: (1,0,0) before (0,0,0), voxel size 2
C1_Witness ==
    /\ DownsampledValid
    /\ call.voxel_size = 2
    /\ points.rows = <<<<1, 0, 0>>, <<0, 0, 0>>>>
    /\ ret.rows = <<<<1, 0, 0>>>>

\* out is a subsequence of S: its points are points of S at ascending indices
IsSubsequence(out, S) ==
    \E idx \in [DOMAIN out -> DOMAIN S] :
        /\ \A k \in DOMAIN out : out[k] = S[idx[k]]
        /\ \A k \in DOMAIN out : k > 1 => idx[k - 1] < idx[k]

\* C2 as stated: the result of downsample(v), v > 0, lists its points in
\* ascending order of their index in the stored points
C2_AscendingIndexOrder ==
    DownsampledValid => IsSubsequence(ret.rows, points.rows)

\* C2: the result of downsample(v), v > 0, lists its points in strictly
\* ascending lexicographic order of their VoxelKeys
C2_AscendingKeyOrder ==
    DownsampledValid =>
        LET v == call.voxel_size
            out == ret.rows
        IN  \A k \in DOMAIN out :
                k > 1 => RowLess(VoxelKey(out[k - 1], v), VoxelKey(out[k], v))

\* a result in key order that is not in index order
C2_Witness ==
    /\ DownsampledValid
    /\ Len(ret.rows) = 3
    /\ ~IsSubsequence(ret.rows, points.rows)

\* C3: the result of downsample(v), v > 0, has as many points as the stored
\* points have distinct VoxelKeys, and no more points than are stored
C3_SizeIsDistinctKeys ==
    DownsampledValid =>
        /\ Len(ret.rows) = Cardinality(KeysOf(points.rows, call.voxel_size))
        /\ Len(ret.rows) <= Len(points.rows)

\* points were dropped and more than one voxel is occupied
C3_Witness ==
    /\ DownsampledValid
    /\ Len(ret.rows) = 2
    /\ Len(points.rows) = 3
    /\ ret.rows[1][1] = ret.rows[2][1]

\* C5: every point of the result of downsample(v), v > 0, is one of the
\* stored points, all three coordinates unchanged
C5_VerbatimCopies ==
    DownsampledValid =>
        \A k \in DOMAIN ret.rows :
            \E i \in DOMAIN points.rows : ret.rows[k] = points.rows[i]

\* a returned point that is off the voxel grid
C5_Witness ==
    /\ DownsampledValid
    /\ \E k \in DOMAIN ret.rows : \E a \in Axes :
           ret.rows[k][a] # VoxelKey(ret.rows[k], call.voxel_size)[a][2] * call.voxel_size

NoSharedKey(rows, v) ==
    \A i, j \in DOMAIN rows : i # j => VoxelKey(rows[i], v) # VoxelKey(rows[j], v)

\* C8: when no two stored points share a VoxelKey at v > 0, downsampling the
\* result of downsample(v) with v again gives that result, in the same order
C8_Idempotent ==
    (DownsampledValid /\ NoSharedKey(points.rows, call.voxel_size)) =>
        Downsampled(ret.rows, call.voxel_size) = ret.rows

\* three points in three voxels that downsample reordered
C8_Witness ==
    /\ DownsampledValid
    /\ call.voxel_size = 2
    /\ NoSharedKey(points.rows, call.voxel_size)
    /\ Len(points.rows) = 3
    /\ ret.rows # points.rows

Abs(n) == IF n < 0 THEN -n ELSE n

\* k is the integer nearest to c / v (v > 0), the even one of two at a tie
IsNearestTiesToEven(k, c, v) ==
    \/ 2 * Abs(c - k * v) < v
    \/ 2 * Abs(c - k * v) = v /\ k % 2 = 0

\* p and q lie in the same voxel under round-half-to-even on every axis
SameVoxelTiesToEven(p, q, v) ==
    \A a \in Axes :
        \E k \in -(Abs(p[a]) + 1)..(Abs(p[a]) + 1) :
            IsNearestTiesToEven(k, p[a], v) /\ IsNearestTiesToEven(k, q[a], v)

\* C9: downsample(v), v > 0, groups the stored points by coordinate / v
\* rounded to the nearest integer, ties to even, on each of the three axes:
\* every stored point has exactly one point of the result in its voxel
C9_RoundHalfToEven ==
    DownsampledValid =>
        \A i \in DOMAIN points.rows :
            Cardinality({k \in DOMAIN ret.rows :
                SameVoxelTiesToEven(ret.rows[k], points.rows[i], call.voxel_size)}) = 1

\* quotients 1.5, 2.5 and 2 on the second axis fall in one voxel
C9_Witness ==
    /\ DownsampledValid
    /\ call.voxel_size = 2
    /\ points.rows = <<<<0, 3, 0>>, <<0, 5, 0>>, <<0, 4, 0>>>>
    /\ ret.rows = <<<<0, 3, 0>>>>

----------------------------------------------------------------------------
(* Properties of the loader (Spec) *)

Reads == {"get_summary", "downsample", "filter_by_y_range"}

\* C4 as stated: downsample with voxel_size <= 0 ends in InvalidArgument and
\* returns no point set
C4_InvalidArgument ==
    (call.op = "downsample" /\ call.voxel_size <= 0) =>
        ret = [tag |-> "InvalidArgument"]

\* C6: a call of get_summary, downsample or filter_by_y_range leaves
\* self.points as it was; only load_points changes it
C6_ReadsKeepPoints ==
    [][call'.op \in Reads => points' = points]_vars

\* a read returned fewer points than are stored
C6_Witness ==
    /\ call.op \in Reads
    /\ IsArray(points)
    /\ IsArray(ret)
    /\ Len(ret.rows) < Len(points.rows)

\* C7 as stated: after load_points from a source with zero points,
\* downsample(v), v > 0, returns an empty point set
C7_EmptySourceGivesEmpty ==
    [][(/\ call.op = "load_points"
        /\ call.file = TextFile(<<>>)
        /\ call'.op = "downsample"
        /\ call'.voxel_size > 0) => ret' = ndarray(<<>>)]_vars

\* the load fails as C10 describes: unreadable, or a row not of width 3
LoadFails(f) == ~f.readable \/ \E i \in DOMAIN f.rows : Len(f.rows[i]) # 3

C10_State ==
    /\ points = None \/ (IsArray(points) /\ \A i \in DOMAIN points.rows :
                                                Len(points.rows[i]) = 3)
    /\ (call.op = "load_points" /\ LoadFails(call.file)) => points = None
    /\ (call.op \in Reads /\ points = None) => ret = None

C10_Step ==
    (IsArray(points) /\ call'.op = "load_points" /\ LoadFails(call'.file))
        => points' = None

\* C10: self.points is None or an array of rows of width 3; a load_points
\* that fails sets it to None, also after an earlier successful load; and
\* while it is None every read returns None
C10_NoneOrWidth3 == []C10_State /\ [][C10_Step]_vars

\* a read on a loader whose load failed
C10_Witness ==
    /\ call.op = "downsample"
    /\ points = None
    /\ ret = None

====
